---------------------------- MODULE Spec2Model ----------------------------
(***************************************************************************)
(* Model of the threat-timeline widget of the Flow desktop front end:      *)
(*   - TableColumnManager (desktop_front/ui_utils.py): persistence of the  *)
(*     header layout of a QTableWidget in QSettings;                       *)
(*   - ThreatTimelineWidget (desktop_front/threat_timeline_widget.py):     *)
(*     construction, resizeEvent, cleanup and the refresh cycle.           *)
(* The Qt objects the code drives (QHeaderView, QSettings, QTableWidget)   *)
(* are modelled by the part of their behaviour the code relies on.         *)
(* Not modelled: the size Qt gives the stretched last section (widths      *)
(* holds the size last assigned to each column), sort indicator sections   *)
(* other than Time, and a store failure in the middle of handle_resize.    *)
(***************************************************************************)
EXTENDS Integers, Sequences, FiniteSets, TLC

VARIABLES
    store,        \* QSettings value under settings_key: NoState or a saved blob
    widths,       \* header section sizes, by logical column 1..ColumnCount
    order,        \* order[v] = logical column shown at visual position v
    sortOrder,    \* header sort indicator order (indicator section is Time)
    default_set,  \* TableColumnManager.default_set
    connections,  \* number of connections sectionResized -> save_state
    viewport,     \* table.viewport().width()
    phase,        \* "running" | "quit" | "crashed"
    lastEvent,    \* the handler that ran last
    writes,       \* settings.setValue calls made by the last handler
    raised,       \* an exception escaped the last handler
    origin,       \* how the present widths came about: none|restored|manual|default
    userActions,  \* number of user actions so far (bounded)
    table,        \* QTableWidget rows: sequence of rows, a row is a sequence of cells
    lastRows,     \* the rows list of the last refresh after rows.sort
    refreshOutcome, \* "ok", or the step at which the last refresh raised;
                    \* "idle" when another event came after it
    alertIn,      \* the alert handed to the row builder
    rowOut        \* <<>>, or <<row>>: the row built from alertIn

layoutVars == <<store, widths, order, sortOrder, default_set, connections, viewport,
                phase, lastEvent, writes, raised, origin, userActions>>
refreshVars == <<table, lastRows, refreshOutcome>>
rowVars == <<alertIn, rowOut>>
vars == <<layoutVars, refreshVars, rowVars>>

---------------------------------------------------------------------------
(* Bounds and program constants *)

\* self.table.setColumnCount(7)
ColumnCount == 7
\* handle_resize: "if width > 300"
MinValidWidth == 300
\* QHeaderView's default section size, used while the viewport has no width
DefaultSectionSize == 100
\* at most this many user actions (column drags, section moves, header clicks)
\* in one behaviour, over all sessions
MaxUserActions == 2

Columns == 1..ColumnCount
\* viewport widths delivered by resize events
Viewports == {MinValidWidth, MinValidWidth + 1, 900}
\* viewport widths seen by __init__ before the widget is laid out
InitViewports == {0, 98}
\* widths a user drags a column to
UserWidths == {60, 128}

\* settings.value() of a key never written: an empty (falsy) value
NoState == [count |-> 0, sections |-> <<>>, logicalIndices |-> <<>>, length |-> 0,
            sortOrder |-> "Desc"]
Identity == [v \in Columns |-> v]

---------------------------------------------------------------------------
(* QHeaderView.saveState / restoreState *)

\* visual position of logical column c
VisualIndex(ord, c) == CHOOSE v \in DOMAIN ord : ord[v] = c

RECURSIVE SumSeq(_)
SumSeq(s) == IF s = <<>> THEN 0 ELSE Head(s) + SumSeq(Tail(s))

\* The blob keeps the section sizes in visual order, the visual->logical map,
\* the total length and the sort indicator, as QHeaderView::saveState does.
SaveState(w, ord, so) ==
    LET sections == [v \in DOMAIN ord |-> w[ord[v]]]
    IN  [count |-> Len(ord), sections |-> sections, logicalIndices |-> ord,
         length |-> SumSeq(sections), sortOrder |-> so]

\* restoreState returns FALSE and changes nothing when the blob does not
\* describe this header's sections.
CanRestore(blob) ==
    /\ blob.count = ColumnCount
    /\ Len(blob.sections) = blob.count
    /\ SumSeq(blob.sections) = blob.length

RestoredWidthsByVisual(blob) == [c \in Columns |-> blob.sections[c]]

RestoredWidths(blob) ==
    [c \in Columns |-> blob.sections[VisualIndex(blob.logicalIndices, c)]]

\* a layout persisted by a build of the table with one column fewer
StaleBlob ==
    SaveState([c \in 1..(ColumnCount - 1) |-> DefaultSectionSize],
              [v \in 1..(ColumnCount - 1) |-> v], "Desc")

HeaderState == SaveState(widths, order, sortOrder)

---------------------------------------------------------------------------
(* TableColumnManager *)

\* restore_state, lines 45-51: disconnect (TypeError swallowed when not
\* connected), then connect.
ReconnectNoDisconnect(n) == n + 1

Reconnect(n) == (IF n > 0 THEN 0 ELSE n) + 1

\* restore_state on a header (w, ord, so) with n connections: the new
\* <<widths, order, sortOrder, default_set, connections, origin>>
RestoreStateResult(w, ord, so, n, org) ==
    IF store # NoState
    THEN IF CanRestore(store)
         THEN <<RestoredWidths(store), store.logicalIndices, store.sortOrder,
                TRUE, Reconnect(n), "restored">>
         ELSE <<w, ord, so, TRUE, Reconnect(n), org>>
    ELSE <<w, ord, so, FALSE, Reconnect(n), org>>

ApplyRestore(w, ord, so, n, org) ==
    LET r == RestoreStateResult(w, ord, so, n, org)
    IN  /\ widths' = r[1]
        /\ order' = r[2]
        /\ sortOrder' = r[3]
        /\ default_set' = r[4]
        /\ connections' = r[5]
        /\ origin' = r[6]

\* setup() run again on the live manager
Setup ==
    /\ phase = "running"
    /\ ApplyRestore(widths, order, sortOrder, connections, origin)
    /\ lastEvent' = "setup"
    /\ writes' = 0
    /\ UNCHANGED <<store, viewport, phase, raised, userActions>>
    /\ UNCHANGED <<refreshVars, rowVars>>

\* save_state as the slot of sectionResized: one setValue per connection
SignalSave(w, ord, so) ==
    IF connections > 0 THEN SaveState(w, ord, so) ELSE store

\* the widget is on screen: a resizeEvent has delivered its viewport width
Shown == viewport \in Viewports

\* the user drags the border of column c to width w
UserResize(c, w) ==
    /\ phase = "running"
    /\ Shown
    /\ userActions < MaxUserActions
    /\ w # widths[c]
    /\ widths' = [widths EXCEPT ![c] = w]
    /\ store' = SignalSave(widths', order, sortOrder)
    /\ writes' = connections
    /\ origin' = "manual"
    /\ lastEvent' = "user_resize"
    /\ userActions' = userActions + 1
    /\ UNCHANGED <<order, sortOrder, default_set, connections, viewport, phase, raised>>
    /\ UNCHANGED <<refreshVars, rowVars>>

\* the user drags the section at visual position v one place to the right
\* (setSectionsMovable(True)); sectionResized is not emitted
UserMove(v) ==
    /\ phase = "running"
    /\ Shown
    /\ userActions < MaxUserActions
    /\ v < ColumnCount
    /\ order' = [order EXCEPT ![v] = order[v + 1], ![v + 1] = order[v]]
    /\ writes' = 0
    /\ lastEvent' = "user_move"
    /\ userActions' = userActions + 1
    /\ UNCHANGED <<store, widths, sortOrder, default_set, connections, viewport,
                   phase, raised, origin>>
    /\ UNCHANGED <<refreshVars, rowVars>>

\* handle_resize, lines 69-83: the widths it leaves
ThresholdInclusive(dset, W) == ~dset /\ W >= MinValidWidth /\ ColumnCount > 0

Distributes(dset, W) == ~dset /\ W > MinValidWidth /\ ColumnCount > 0

\* stretchLastSection is set by setup: limit = count - 1
Distributed(w, W) ==
    [c \in Columns |-> IF c <= ColumnCount - 1 THEN W \div ColumnCount ELSE w[c]]

ChangedColumns(w1, w2) == {c \in Columns : w1[c] # w2[c]}

\* resizeEvent of the widget with viewport width W, then handle_resize
ResizeEvent(W) ==
    /\ phase = "running"
    /\ viewport' = W
    /\ IF Distributes(default_set, W)
       THEN /\ widths' = Distributed(widths, W)
            /\ default_set' = TRUE
            /\ origin' = "default"
            \* every setColumnWidth that changes a width emits sectionResized
            /\ writes' = Cardinality(ChangedColumns(widths, widths')) * connections
            /\ store' = IF widths' # widths
                        THEN SignalSave(widths', order, sortOrder)
                        ELSE store
       ELSE /\ writes' = 0
            /\ UNCHANGED <<widths, default_set, origin, store>>
    /\ lastEvent' = "resize_event"
    /\ UNCHANGED <<order, sortOrder, connections, phase, raised, userActions>>
    /\ UNCHANGED <<refreshVars, rowVars>>

\* cleanup, connected to QApplication.aboutToQuit
CleanupSaveNothing == store

CleanupSave == SaveState(widths, order, sortOrder)

Cleanup ==
    /\ phase = "running"
    /\ store' = CleanupSave
    /\ writes' = 1
    /\ phase' = "quit"
    /\ lastEvent' = "cleanup"
    /\ UNCHANGED <<widths, order, sortOrder, default_set, connections, viewport,
                   raised, origin, userActions>>
    /\ UNCHANGED <<refreshVars, rowVars>>

\* __init__, lines 83-105: the widths before the manager is set up
InitialWidths(W) ==
    [c \in Columns |-> IF W > 0 THEN W \div ColumnCount ELSE DefaultSectionSize]

\* the application is started again: a new widget and a new manager on the
\* same settings key
NewSession(W) ==
    /\ phase = "quit"
    /\ viewport' = W
    /\ ApplyRestore(InitialWidths(W), Identity, "Desc", 0, "none")
    /\ phase' = "running"
    /\ lastEvent' = "new_session"
    /\ writes' = 0
    /\ UNCHANGED <<store, raised, userActions>>
    /\ UNCHANGED <<refreshVars, rowVars>>

---------------------------------------------------------------------------
(* ThreatTimelineWidget.refresh: the records it reads *)

\* timestamps are counted in ticks; strftime("%Y-%m-%d %H:%M:%S") keeps seconds
TicksPerSecond == 2
MaxTime == 2
\* at most this many alerts / quarantine records per refresh
MaxAlerts == 2
MaxQuarantine == 1

Times == 0..MaxTime
\* a port that is None
NonePort == -1
Ports == {NonePort, 0, 80}
\* a pid that is None
NonePid == 0

NoConnection ==
    [exists |-> FALSE, src_ip |-> "", dst_ip |-> "", dst_port |-> NonePort, pid |-> NonePid]

Connections ==
    {NoConnection} \cup
    [exists : {TRUE}, src_ip : {"", "10.0.0.3"}, dst_ip : {"", "10.0.0.4"},
     dst_port : Ports, pid : {NonePid, 7}]

Alerts ==
    [timestamp : {0}, alert_type : {"", "portscan"}, severity : {"", "high"},
     src_ip : {"", "10.0.0.1"}, dst_ip : {"", "10.0.0.2"}, dst_port : Ports,
     message : {"m1"}, connection : Connections]

PlainAlert(t, m) ==
    [timestamp |-> t, alert_type |-> "portscan", severity |-> "high",
     src_ip |-> "10.0.0.1", dst_ip |-> "", dst_port |-> NonePort,
     message |-> m, connection |-> NoConnection]

\* the alerts the refresh specification draws from
RefreshAlerts == {PlainAlert(t, m) : t \in Times, m \in {"m1", "m2"}}

QuarantineRecords == [detected_at : Times, filename : {"evil.exe"}]

\* str() of a port
PortText(p) ==
    CASE p = NonePort -> "None"
      [] p = 0 -> "0"
      [] p = 80 -> "80"
      [] OTHER -> "port"

---------------------------------------------------------------------------
(* refresh, lines 147-182: one row per alert.  A destination is the sequence *)
(* of the pieces its f-string joins; "" is the empty sequence.               *)

\* lines 151-153
BuildSrc(alert) ==
    IF alert.src_ip # "" THEN alert.src_ip
    ELSE IF alert.connection.exists THEN alert.connection.src_ip
    ELSE ""

\* lines 156-161
BuildDst(alert) ==
    LET conn == alert.connection
    IN  IF conn.exists /\ conn.dst_ip # ""
        THEN <<conn.dst_ip, ":", PortText(conn.dst_port)>>
        ELSE IF alert.dst_ip # ""
             THEN IF alert.dst_port \notin {NonePort, 0}
                  THEN <<alert.dst_ip, ":", PortText(alert.dst_port)>>
                  ELSE <<alert.dst_ip>>
             ELSE <<>>

\* lines 164-170; chainOk: build_process_chain returned
BuildChain(alert, chainOk) ==
    LET conn == alert.connection
    IN  IF conn.exists /\ conn.pid # NonePid
        THEN IF chainOk THEN "chain" ELSE "PID"
        ELSE ""

\* lines 172-182
BuildRow(alert, chainOk) ==
    [time |-> alert.timestamp,
     type |-> IF alert.alert_type # "" THEN alert.alert_type ELSE "Alert",
     severity |-> alert.severity,
     src |-> BuildSrc(alert),
     dst |-> BuildDst(alert),
     details |-> alert.message,
     process_chain |-> BuildChain(alert, chainOk)]

\* lines 195-205
QuarantineRow(q) ==
    [time |-> q.detected_at, type |-> "Quarantine", severity |-> "high",
     src |-> "", dst |-> <<>>, details |-> q.filename, process_chain |-> ""]

\* line 211: rows.sort(key=time, reverse=True), a stable sort
\* the length of the longest prefix of TRUEs of a sequence of booleans
LeadingCount(flags) ==
    LET stops == {i \in DOMAIN flags : ~flags[i]}
    IN  IF stops = {} THEN Len(flags)
        ELSE (CHOOSE i \in stops : \A j \in stops : i <= j) - 1

InsertAt(s, p, x) == SubSeq(s, 1, p - 1) \o <<x>> \o SubSeq(s, p, Len(s))

RemoveAt(s, p) == SubSeq(s, 1, p - 1) \o SubSeq(s, p + 1, Len(s))

RECURSIVE SortRowsFrom(_, _, _)
SortRowsFrom(rows, i, acc) ==
    IF i > Len(rows) THEN acc
    ELSE LET r == rows[i]
             before == [k \in DOMAIN acc |-> acc[k].time >= r.time]
         IN  SortRowsFrom(rows, i + 1, InsertAt(acc, 1 + LeadingCount(before), r))

SortRows(rows) == SortRowsFrom(rows, 1, <<>>)

---------------------------------------------------------------------------
(* The QTableWidget: a row is a record of cells; a cell is <<>> (no item) or *)
(* <<text>>.  The table sorts on the Time column: setSortingEnabled(True)    *)
(* (line 93) sorts by the header's sort indicator, section 0.                *)

\* timezone.localtime(t).strftime(...): the second a tick falls in, as text
TimeTexts == <<"00:00:00", "00:00:01", "00:00:02", "00:00:03", "00:00:04", "00:00:05">>

FormatTime(t) == TimeTexts[(t \div TicksPerSecond) + 1]

\* QTableWidgetItem.__lt__ on two Time texts of the same day
TextIndex(txt) == CHOOSE i \in DOMAIN TimeTexts : TimeTexts[i] = txt

TextLess(a, b) == TextIndex(a) < TextIndex(b)

EmptyRow ==
    [time |-> <<>>, type |-> <<>>, severity |-> <<>>, src |-> <<>>, dst |-> <<>>,
     details |-> <<>>, process_chain |-> <<>>]

\* lines 218-220
NoDataRow == [EmptyRow EXCEPT !.time = <<"No security events found.">>]

\* QTableModel::setItem on the sort column: the row moves to its sorted place.
\* sortedInsertionIterator is a lower bound, so an item goes before its equals.
SortedRow(T, r, so) ==
    LET filled == LeadingCount([i \in DOMAIN T |-> T[i].time # <<>>])
        colItems == [i \in 1..filled |-> T[i].time[1]]
        others == IF r <= filled THEN RemoveAt(colItems, r) ELSE colItems
        precedes == [k \in DOMAIN others |->
                        IF so = "Desc" THEN TextLess(T[r].time[1], others[k])
                        ELSE TextLess(others[k], T[r].time[1])]
    IN  1 + LeadingCount(precedes)

SetTimeItem(T, r, txt, so) ==
    LET T1 == [T EXCEPT ![r].time = <<txt>>]
        sortedRow == SortedRow(T1, r, so)
    IN  IF sortedRow # r THEN InsertAt(RemoveAt(T1, r), sortedRow, T1[r]) ELSE T1

\* lines 226-231: the other cells go to the row that is at row_idx by then
SetOtherItems(T, r, row) ==
    [T EXCEPT ![r] = [@ EXCEPT !.type = <<row.type>>, !.severity = <<row.severity>>,
                               !.src = <<row.src>>, !.dst = <<row.dst>>,
                               !.details = <<row.details>>,
                               !.process_chain = <<row.process_chain>>]]

\* lines 222-231; failAt: the row at which timezone.localtime raises (0: none)
RECURSIVE WriteRows(_, _, _, _, _)
WriteRows(T, rows, i, failAt, so) ==
    IF i > Len(rows) \/ i = failAt THEN T
    ELSE WriteRows(SetOtherItems(SetTimeItem(T, i, FormatTime(rows[i].time), so), i, rows[i]),
                   rows, i + 1, failAt, so)

\* lines 214-231
UpdateTable(rows, failAt, so) ==
    IF rows = <<>> THEN <<NoDataRow>>
    ELSE WriteRows([i \in 1..Len(rows) |-> EmptyRow], rows, 1, failAt, so)

\* what the table shows when every row of `rows` is written in its place
RenderRow(row) ==
    [time |-> <<FormatTime(row.time)>>, type |-> <<row.type>>,
     severity |-> <<row.severity>>, src |-> <<row.src>>, dst |-> <<row.dst>>,
     details |-> <<row.details>>, process_chain |-> <<row.process_chain>>]

Render(rows) == [i \in 1..Len(rows) |-> RenderRow(rows[i])]

---------------------------------------------------------------------------
(* refresh, lines 131-235 *)

SeqsUpTo(S, n) == UNION {[1..k -> S] : k \in 0..n}

\* order_by("-timestamp") / order_by("-detected_at")
NonIncreasing(keys) == \A i, j \in DOMAIN keys : i < j => keys[i] >= keys[j]

\* the alerts of one result are different database rows: their messages differ
AlertQueryResults ==
    {s \in SeqsUpTo(RefreshAlerts, MaxAlerts) :
        /\ NonIncreasing([i \in DOMAIN s |-> s[i].timestamp])
        /\ \A i, j \in DOMAIN s : i # j => s[i].message # s[j].message}

QuarantineQueryResults ==
    {s \in SeqsUpTo(QuarantineRecords, MaxQuarantine) :
        NonIncreasing([i \in DOMAIN s |-> s[i].detected_at])}

\* the rows list at line 211, before the sort
MergedRows(alerts, qs, qOk) ==
    [i \in DOMAIN alerts |-> BuildRow(alerts[i], TRUE)]
        \o (IF qOk THEN [i \in DOMAIN qs |-> QuarantineRow(qs[i])] ELSE <<>>)

\* the alert query (line 141) or the row building (lines 147-182) raises, or
\* rows.sort does (line 211): the handler of line 233 runs with the table
\* not yet touched
RefreshFailsEarly(where) ==
    /\ phase = "running"
    /\ where \in {"query", "build", "sort"}
    /\ refreshOutcome' = where
    /\ UNCHANGED <<table, lastRows>>
    /\ UNCHANGED <<layoutVars, rowVars>>

\* a refresh that gets to line 214; qOk: the quarantine query returned;
\* failAt: the row whose timestamp timezone.localtime rejects (0: none)
Refresh(alerts, qs, qOk, failAt) ==
    /\ phase = "running"
    /\ qOk \/ qs # <<>>
    /\ LET rows == SortRows(MergedRows(alerts, qs, qOk))
       IN  /\ failAt \in 0..Len(rows)
           /\ lastRows' = rows
           /\ table' = UpdateTable(rows, failAt, sortOrder)
           /\ refreshOutcome' = IF failAt = 0 THEN "ok" ELSE "write"
    /\ UNCHANGED <<layoutVars, rowVars>>

\* QTableModel::sort: a stable sort of the rows that have a Time item
RECURSIVE SortTableFrom(_, _, _, _)
SortTableFrom(T, i, acc, so) ==
    IF i > Len(T) THEN acc
    ELSE LET r == T[i]
             before == [k \in DOMAIN acc |->
                           /\ acc[k].time # <<>>
                           /\ \/ r.time = <<>>
                              \/ IF so = "Desc" THEN ~TextLess(acc[k].time[1], r.time[1])
                                 ELSE ~TextLess(r.time[1], acc[k].time[1])]
         IN  SortTableFrom(T, i + 1, InsertAt(acc, 1 + LeadingCount(before), r), so)

Flip(so) == IF so = "Desc" THEN "Asc" ELSE "Desc"

\* the user clicks the Time header section: the indicator flips and the
\* table is sorted again
HeaderClicked ==
    /\ phase = "running"
    /\ Len(table) > 0
    /\ table # <<NoDataRow>>
    /\ sortOrder' = Flip(sortOrder)
    /\ table' = SortTableFrom(table, 1, <<>>, sortOrder')
    /\ refreshOutcome' = "idle"
    /\ lastEvent' = "header_click"
    /\ UNCHANGED <<store, widths, order, default_set, connections, viewport, phase,
                   writes, raised, origin, userActions>>
    /\ UNCHANGED <<lastRows, rowVars>>

NextRefresh ==
    \/ \E where \in {"query", "build", "sort"} : RefreshFailsEarly(where)
    \/ \E alerts \in AlertQueryResults, qs \in QuarantineQueryResults,
          qOk \in BOOLEAN, failAt \in 0..(MaxAlerts + MaxQuarantine) :
          Refresh(alerts, qs, qOk, failAt)
    \/ HeaderClicked

---------------------------------------------------------------------------
InitLayout ==
    /\ store \in {NoState, StaleBlob}
    /\ viewport \in InitViewports
    /\ LET r == RestoreStateResult(InitialWidths(viewport), Identity, "Desc", 0, "none")
       IN  /\ widths = r[1]
           /\ order = r[2]
           /\ sortOrder = r[3]
           /\ default_set = r[4]
           /\ connections = r[5]
           /\ origin = r[6]
    /\ phase = "running"
    /\ lastEvent = "new_session"
    /\ writes = 0
    /\ raised = FALSE
    /\ userActions = 0

\* __init__ line 120: the first refresh, here on a database without events
InitRefreshIdle ==
    /\ table = <<NoDataRow>>
    /\ lastRows = <<>>
    /\ refreshOutcome = "ok"

InitRowIdle ==
    /\ alertIn = PlainAlert(0, "m1")
    /\ rowOut = <<>>

Init == InitLayout /\ InitRefreshIdle /\ InitRowIdle

Next ==
    \/ Setup
    \/ \E c \in Columns, w \in UserWidths : UserResize(c, w)
    \/ \E v \in Columns : UserMove(v)
    \/ \E W \in Viewports : ResizeEvent(W)
    \/ Cleanup
    \/ \E W \in InitViewports : NewSession(W)

Spec == Init /\ [][Next]_vars

\* the widget of a first run, on screen, with the timer driving refresh
InitRefresh ==
    /\ InitLayout
    /\ store = NoState
    /\ viewport = 0
    /\ InitRefreshIdle
    /\ InitRowIdle

SpecRefresh == InitRefresh /\ [][NextRefresh]_vars

\* the row builder on every alert
BuildRowStep(chainOk) ==
    /\ rowOut = <<>>
    /\ rowOut' = <<BuildRow(alertIn, chainOk)>>
    /\ UNCHANGED <<alertIn, layoutVars, refreshVars>>

InitRow ==
    /\ InitLayout
    /\ store = NoState
    /\ viewport = 0
    /\ InitRefreshIdle
    /\ alertIn \in Alerts
    /\ rowOut = <<>>

NextRow == \E chainOk \in BOOLEAN : BuildRowStep(chainOk)

SpecRow == InitRow /\ [][NextRow]_vars



---------------------------------------------------------------------------
(* The same manager on a QSettings store whose reads and writes can raise. *)
(* Neither restore_state nor save_state has a handler around the store     *)
(* call, so the exception leaves the method.                               *)

\* restore_state line 37 raises: lines 38-56 do not run
SetupReadFails ==
    /\ phase = "running"
    /\ raised' = TRUE
    /\ phase' = "crashed"
    /\ lastEvent' = "setup"
    /\ writes' = 0
    /\ UNCHANGED <<store, widths, order, sortOrder, default_set, connections,
                   viewport, origin, userActions>>
    /\ UNCHANGED <<refreshVars, rowVars>>

\* the same in the constructor of a new session's widget
NewSessionReadFails(W) ==
    /\ phase = "quit"
    /\ viewport' = W
    /\ widths' = InitialWidths(W)
    /\ order' = Identity
    /\ sortOrder' = "Desc"
    /\ default_set' = FALSE
    /\ connections' = 0
    /\ origin' = "none"
    /\ raised' = TRUE
    /\ phase' = "crashed"
    /\ lastEvent' = "new_session"
    /\ writes' = 0
    /\ UNCHANGED <<store, userActions>>
    /\ UNCHANGED <<refreshVars, rowVars>>

\* save_state line 62 raises in the slot of sectionResized
UserResizeWriteFails(c, w) ==
    /\ phase = "running"
    /\ Shown
    /\ userActions < MaxUserActions
    /\ w # widths[c]
    /\ connections > 0
    /\ widths' = [widths EXCEPT ![c] = w]
    /\ origin' = "manual"
    /\ raised' = TRUE
    /\ phase' = "crashed"
    /\ lastEvent' = "user_resize"
    /\ writes' = 0
    /\ userActions' = userActions + 1
    /\ UNCHANGED <<store, order, sortOrder, default_set, connections, viewport>>
    /\ UNCHANGED <<refreshVars, rowVars>>

\* save_state line 62 raises in cleanup
CleanupWriteFails ==
    /\ phase = "running"
    /\ raised' = TRUE
    /\ phase' = "crashed"
    /\ lastEvent' = "cleanup"
    /\ writes' = 0
    /\ UNCHANGED <<store, widths, order, sortOrder, default_set, connections,
                   viewport, origin, userActions>>
    /\ UNCHANGED <<refreshVars, rowVars>>

NextStoreFails ==
    \/ Next
    \/ SetupReadFails
    \/ \E W \in InitViewports : NewSessionReadFails(W)
    \/ \E c \in Columns, w \in UserWidths : UserResizeWriteFails(c, w)
    \/ CleanupWriteFails

SpecStoreFails == Init /\ [][NextStoreFails]_vars

\* C5: a failure of the store on read or on write never leaves the Column
\* Layout Manager: the operation returns normally.
C5_StoreFailuresSwallowed == ~raised /\ phase # "crashed"


---------------------------------------------------------------------------
(* Column Layout Manager: claims *)

RestoreEvents == {"setup", "new_session"}

\* C1: once a layout is established, handle_resize changes no column width,
\* and a layout restored from the store or set manually by the user is never
\* overwritten by a later handle_resize, whatever the viewport width.
C1_ResizeNeverOverwrites ==
    [][(lastEvent' = "resize_event"
        /\ (default_set \/ origin \in {"restored", "manual"}))
       => widths' = widths]_vars

\* C3: after a user column resize the persisted value is the header's
\* current layout, and setup with the same key (same manager or a new one)
\* restores exactly the persisted widths and order and marks the layout as
\* established.
C3_LayoutRoundTrip ==
    /\ [](lastEvent = "user_resize" => store = HeaderState)
    /\ [][(lastEvent' \in RestoreEvents /\ store = HeaderState)
          => (widths' = widths /\ order' = order /\ sortOrder' = sortOrder
              /\ default_set')]_vars

C3_Witness ==
    /\ lastEvent \in RestoreEvents
    /\ origin = "restored"
    /\ default_set
    /\ \E c \in Columns : widths[c] \in UserWidths
    /\ order # Identity
    /\ store = HeaderState

\* C4: when the persisted layout does not fit the table, the layout stays
\* "not yet established", so the next handle_resize with a viewport wider
\* than 300 distributes the columns equally.
C4_MismatchFallsBackToDefault ==
    [][(lastEvent \in RestoreEvents /\ store # NoState /\ ~CanRestore(store)
        /\ lastEvent' = "resize_event" /\ viewport' > MinValidWidth)
       => (\A c \in 1..(ColumnCount - 1) : widths'[c] = viewport' \div ColumnCount)]_vars

\* C8: with no layout established, a handle_resize with viewport width W > 300
\* sets each of the first N-1 columns to W \div N, leaves the last (stretch)
\* column alone and marks the layout established; with W <= 300 it changes no
\* width and the layout stays not established.
C8_FirstResizeDistributes ==
    [][(lastEvent' = "resize_event" /\ ~default_set)
       => IF viewport' > MinValidWidth
          THEN /\ \A c \in 1..(ColumnCount - 1) : widths'[c] = viewport' \div ColumnCount
               /\ widths'[ColumnCount] = widths[ColumnCount]
               /\ default_set'
          ELSE widths' = widths /\ ~default_set']_vars

C8_Witness ==
    /\ lastEvent = "resize_event"
    /\ origin = "default"
    /\ viewport = 900
    /\ \A c \in 1..6 : widths[c] = 128
    /\ widths[7] # 128
    /\ default_set

\* C9: however often setup runs, save_state is connected to sectionResized
\* exactly once, a column-width change causes exactly one write, and a second
\* save_state with the layout unchanged leaves the stored value as it is.
C9_SingleSubscription ==
    /\ [](connections = 1)
    /\ [](lastEvent = "user_resize" => writes = 1)
    /\ [][(lastEvent = "user_resize" /\ lastEvent' = "cleanup") => store' = store]_vars

C9_Witness ==
    /\ lastEvent = "user_resize"
    /\ writes = 1
    /\ connections = 1
    /\ origin = "manual"
    /\ store = HeaderState

\* C10: after the exit hook has run, the persisted value is the table's final
\* layout (widths and order), also when no resize-triggered save happened.
C10_ExitHookSaves ==
    phase = "quit" => (store # NoState /\ store = HeaderState
                       /\ RestoredWidths(store) = widths
                       /\ store.logicalIndices = order)

C10_Witness ==
    /\ phase = "quit"
    /\ origin \in {"none", "restored"}
    /\ order # Identity
    /\ store = HeaderState

---------------------------------------------------------------------------
(* Timeline Refresher: claims *)

\* C2: if an exception is raised at any point of a refresh cycle (alert
\* query, row building, sorting, writing the cells), the table shows exactly
\* the rows it showed before the cycle started.
C2_FailedRefreshKeepsTable ==
    [][refreshOutcome' \in {"query", "build", "sort", "write"} => table' = table]_vars

\* C6: after a refresh the rows of the table, read top to bottom, are the
\* merged rows in non-increasing order of their raw timestamp, rows with
\* equal timestamps in the order in which they were appended.
C6_DisplayedNewestFirst ==
    (refreshOutcome = "ok" /\ lastRows # <<>>)
        => /\ NonIncreasing([i \in DOMAIN lastRows |-> lastRows[i].time])
           /\ table = Render(lastRows)

\* C7: for an alert where neither the alert nor its connection record has a
\* destination port, the destination built holds no port separator and no
\* port placeholder: it is the bare address, or empty.
C7_NoPortNoSeparator ==
    (/\ rowOut # <<>>
     /\ alertIn.dst_port = NonePort
     /\ alertIn.connection.dst_port = NonePort)
        => /\ \A i \in DOMAIN rowOut[1].dst : rowOut[1].dst[i] \notin {":", "None"}
           /\ rowOut[1].dst \in {<<>>, <<alertIn.dst_ip>>, <<alertIn.connection.dst_ip>>}

=============================================================================
